---- MODULE Spec2Model ----
(***************************************************************************)
(* Selection-state synchronisation of the Taiwan township population map   *)
(* (src/src/barplots.js): the selection set, the Leaflet layer styles and  *)
(* render stack, the click / double-click disambiguation, and the views    *)
(* that updateUI recomputes (statistics, county buttons, export button,    *)
(* bar charts).                                                            *)
(***************************************************************************)
EXTENDS Integers, Sequences, FiniteSets, TLC

(***************************************************************************)
(* The two input documents.  The geometry document is a list of features   *)
(* (FULLNAME is the key); the attribute document maps a FULLNAME to        *)
(* population / area / density.  An area is written with one decimal; the  *)
(* documents keep it in tenths of a km2 (area10), and ParseTenths below    *)
(* gives the number the program computes with.                             *)
(***************************************************************************)
GeoDoc ==
    << [FULLNAME |-> "A", COUNTYNAME |-> "X", TOWNNAME |-> "a"],
       [FULLNAME |-> "B", COUNTYNAME |-> "X", TOWNNAME |-> "b"],
       [FULLNAME |-> "C", COUNTYNAME |-> "Y", TOWNNAME |-> "c"] >>

NullDoc == << >>

RecA == [population |-> 100, area10 |-> 100, density |-> 10]
RecB == [population |-> 400, area10 |-> 200, density |-> 20]
RecZ == [population |-> 5, area10 |-> 10, density |-> 5]

\* three small townships: areas 0.8, 2.3 and 0.4 km2
SmallA == [population |-> 5, area10 |-> 8, density |-> 6]
SmallB == [population |-> 25, area10 |-> 23, density |-> 11]
SmallC == [population |-> 4, area10 |-> 4, density |-> 10]

\* every region has a record
PopFull == [k \in {"A", "B", "C"} |-> CASE k = "A" -> SmallA [] k = "B" -> SmallB [] OTHER -> SmallC]
\* region C has no record, and record Z belongs to no region
PopPartial == [k \in {"A", "B", "Z"} |-> CASE k = "A" -> RecA [] k = "B" -> RecB [] OTHER -> RecZ]

PopulationDocs == {PopFull, PopPartial}

NoRegion == "none"

Range(s) == {s[i] : i \in 1..Len(s)}

FullNames(geo) == {geo[i].FULLNAME : i \in 1..Len(geo)}
CountyNames(geo) == {geo[i].COUNTYNAME : i \in 1..Len(geo)}
Regions == FullNames(GeoDoc)
Counties == CountyNames(GeoDoc)
\* features.find(f => f.properties.FULLNAME === fullname).properties.COUNTYNAME
CountyIn(geo, f) == geo[CHOOSE i \in 1..Len(geo) : geo[i].FULLNAME = f].COUNTYNAME
CountyOf(f) == CountyIn(GeoDoc, f)

(***************************************************************************)
(* Program constants                                                       *)
(***************************************************************************)
DOUBLE_CLICK_THRESHOLD == 300
COLOR_GRADES == <<0, 10, 500, 1000, 2000, 5000, 10000, 20000, 30000>>
COLOR_PALETTE == <<"#ffffff", "#f9ece8", "#f3d9d1", "#e8bfb1", "#d9a08c",
                   "#ca8167", "#bb6242", "#aa4c2c", "#aa4c2c">>
\* opacity in tenths (0.8 -> 8, 1 -> 10)
BORDER_UNSELECTED == [weight |-> 1, color |-> "#cccccc", opacity |-> 8]
BORDER_SELECTED == [weight |-> 3, color |-> "#000000", opacity |-> 10]
maxVisibleBars == 15
marginTop == 20
bottomMargin == 70
scrollbarHeight == 14

(***************************************************************************)
(* Bounds of the model                                                     *)
(***************************************************************************)
\* the clock advances in steps of half the double-click threshold
ClockStep == DOUBLE_CLICK_THRESHOLD \div 2
MaxTicks == 3

\* densities are probed up to this far from each grade
ProbeSpread == 2

\* the number of toasts shown in one run
MaxToasts == 3

\* the number of 100 ms retries of tryInit followed in one run
MaxRetries == 2

\* the sizes getBoundingClientRect can report for a chart container
ContainerBoxes == { [width |-> 0, height |-> 0],
                    [width |-> 300, height |-> 80],
                    [width |-> 300, height |-> 200] }

VARIABLES
    phase,                 \* init(): "loading" | "ready" | "failed"
    geojsonData,           \* state.geojsonData
    populationData,        \* state.populationData
    totalTownships,        \* state.totalTownships
    selectedTownships,     \* state.selectedTownships, in insertion order
    zOrder,                \* render stack of the region layers, last = front
    layerStyle,            \* border style of each region layer
    lastClickTime,         \* state.lastClickTime
    lastClickedTownship,   \* state.lastClickedTownship
    now,                   \* Date.now()
    hovered,               \* region under the pointer
    infoBox,               \* #map-info-box
    stats,                 \* #stat-count, #summary-stats and its three fields
    selectedList,          \* #selected-townships: the county groups
    countyButtons,         \* #county-buttons: county -> marked "selected"
    exportDisabled,        \* #btn-export disabled
    d3Loaded,              \* typeof d3 !== 'undefined'
    containersPresent,     \* both bar-plot containers are in the document
    bounds,                \* getBoundingClientRect of the chart containers
    initialized,           \* BarPlots.initialized
    lastData,              \* BarPlots.lastData
    charts,                \* what the two chart containers show
    last,                  \* history: the last selection handler that ran
    gesture,               \* history: progress of a click, click, dblclick gesture
    exported,              \* the last exportData call: its selection and what it did
    toasts,                \* the .toast elements of the document, in document order
    toastTimers,           \* the pending 2000 ms timers, in the order they were set
    toastCount,            \* toasts created so far; a toast is named by its number
    setupLog,              \* history: the calls init() has made, in order
    awaiting,              \* what init() is suspended on, "none" once it has settled
    tryInitTimer,          \* 0: no retry of tryInit is pending; n: its n-th 100 ms timer is
    colorProbe,            \* two densities and what getColor makes of them
    userExpanded,          \* history: counties the user expanded and has not collapsed
    windowLoad,            \* the window load handler: "before" | "pending" | "done"
    readyState,            \* document.readyState
    domContentLoaded,      \* the DOMContentLoaded event has been dispatched
    updated                \* history: BarPlots.update has stored its data

vars == << phase, geojsonData, populationData, totalTownships, selectedTownships,
           zOrder, layerStyle, lastClickTime, lastClickedTownship, now, hovered,
           infoBox, stats, selectedList, countyButtons, exportDisabled, d3Loaded,
           containersPresent, bounds, initialized, lastData, charts, last, gesture,
           exported, toasts, toastTimers, toastCount, setupLog, awaiting,
           tryInitTimer, colorProbe, userExpanded, windowLoad, readyState,
           domContentLoaded, updated >>

(***************************************************************************)
(* Utilities                                                               *)
(***************************************************************************)
\* getColor: scan the grades from the last to the first; the position at which
\* the loop returns, 0 when it runs out (positions count from 1 here)
RECURSIVE getColorFrom(_, _)
getColorFrom(density, i) ==
    IF i < 1 THEN 0
    ELSE IF density >= COLOR_GRADES[i] THEN i
    ELSE getColorFrom(density, i - 1)

\* mutant: a grade is reached only by a density above it
getColorAbove(density) ==
    LET above == {i \in 1..Len(COLOR_GRADES) : density > COLOR_GRADES[i]}
    IN  IF above = {} THEN COLOR_PALETTE[1]
        ELSE COLOR_PALETTE[CHOOSE i \in above : \A j \in above : j <= i]

getColor(density) ==
    LET i == getColorFrom(density, Len(COLOR_GRADES))
    IN  IF i = 0 THEN COLOR_PALETTE[1] ELSE COLOR_PALETTE[i]

\* p / q rounded to the nearest integer, halves upwards, for p >= 0, q > 0
RoundDiv(p, q) == (2 * p + q) \div (2 * q)

(***************************************************************************)
(* JavaScript numbers.  The areas of the attribute document are decimal    *)
(* fractions, which JSON.parse turns into IEEE 754 doubles; updateStats    *)
(* adds and divides them as doubles.  A double is [m, e] with the value    *)
(* m * 2^e, where m is a whole number of 53 binary digits (or 0).  Whole   *)
(* numbers of that size are written in base 2^15, lowest digit first, with *)
(* no zero as the highest digit (<< >> is 0).  The operations round to     *)
(* nearest, ties to even, as the hardware does; the values are far from    *)
(* the ends of the exponent range.                                         *)
(***************************************************************************)
Base == 32768

RECURSIVE BigOf(_)
BigOf(n) == IF n = 0 THEN << >> ELSE << n % Base >> \o BigOf(n \div Base)

RECURSIVE NatOf(_)
NatOf(b) == IF b = << >> THEN 0 ELSE Head(b) + Base * NatOf(Tail(b))

RECURSIVE Trim(_)
Trim(b) ==
    IF b = << >> THEN b
    ELSE IF b[Len(b)] = 0 THEN Trim(SubSeq(b, 1, Len(b) - 1))
    ELSE b

Digit(b, i) == IF i <= Len(b) THEN b[i] ELSE 0

\* a + b + c
RECURSIVE AddCarry(_, _, _)
AddCarry(a, b, c) ==
    IF a = << >> /\ b = << >> THEN (IF c > 0 THEN << c >> ELSE << >>)
    ELSE LET s == Digit(a, 1) + Digit(b, 1) + c
         IN  << s % Base >>
             \o AddCarry(IF a = << >> THEN a ELSE Tail(a),
                         IF b = << >> THEN b ELSE Tail(b),
                         s \div Base)

AddBig(a, b) == AddCarry(a, b, 0)

\* a - b - c for a >= b + c
RECURSIVE SubBorrow(_, _, _)
SubBorrow(a, b, c) ==
    IF a = << >> THEN << >>
    ELSE LET d == Head(a) - Digit(b, 1) - c
         IN  << d % Base >>
             \o SubBorrow(Tail(a), IF b = << >> THEN b ELSE Tail(b),
                          IF d < 0 THEN 1 ELSE 0)

SubBig(a, b) == Trim(SubBorrow(a, b, 0))

\* a < b
RECURSIVE LessBig(_, _)
LessBig(a, b) ==
    IF Len(a) # Len(b) THEN Len(a) < Len(b)
    ELSE IF a = << >> THEN FALSE
    ELSE IF a[Len(a)] # b[Len(b)] THEN a[Len(a)] < b[Len(b)]
    ELSE LessBig(Trim(SubSeq(a, 1, Len(a) - 1)), Trim(SubSeq(b, 1, Len(b) - 1)))

\* the number of binary digits
RECURSIVE BitLen(_)
BitLen(n) == IF n = 0 THEN 0 ELSE 1 + BitLen(n \div 2)

Bits(b) == IF b = << >> THEN 0 ELSE 15 * (Len(b) - 1) + BitLen(b[Len(b)])

\* b * k for a k up to Base
RECURSIVE TimesCarry(_, _, _)
TimesCarry(b, k, c) ==
    IF b = << >> THEN (IF c > 0 THEN << c >> ELSE << >>)
    ELSE << (Head(b) * k + c) % Base >> \o TimesCarry(Tail(b), k, (Head(b) * k + c) \div Base)

\* b * 2^n
ShiftLeft(b, n) ==
    IF b = << >> THEN b
    ELSE [i \in 1..(n \div 15) |-> 0] \o TimesCarry(b, 2 ^ (n % 15), 0)

\* b div 2^n
ShiftRight(b, n) ==
    LET skip == n \div 15
        k == 2 ^ (n % 15)
    IN  Trim([i \in 1..(Len(b) - skip) |->
                 (b[i + skip] \div k) + (Digit(b, i + skip + 1) % k) * (Base \div k)])

\* the binary digit of b that counts 2^(i-1)
Bit(b, i) == (Digit(b, (i - 1) \div 15 + 1) \div (2 ^ ((i - 1) % 15))) % 2

\* b mod 2^n is not 0
LowBits(b, n) ==
    \/ \E i \in 1..(n \div 15) : Digit(b, i) # 0
    \/ Digit(b, n \div 15 + 1) % (2 ^ (n % 15)) # 0

\* long division in base 2: n more digits of the quotient q, with remainder r,
\* of a number whose further digits are all 0, by b (the test on Len(q) has
\* TLC compute q at every digit instead of all at once at the end)
RECURSIVE DivStep(_, _, _, _)
DivStep(n, b, q, r) ==
    IF Len(q) >= 0 /\ n = 0 THEN [q |-> q, r |-> r]
    ELSE LET r1 == AddBig(r, r)
         IN  IF LessBig(r1, b)
             THEN DivStep(n - 1, b, AddBig(q, q), r1)
             ELSE DivStep(n - 1, b, AddCarry(q, q, 1), SubBig(r1, b))

Zero == [m |-> << >>, e |-> 0]

\* a mantissa of 53 digits, or of 54 after a carry out of the rounding
Carried(r, e) ==
    IF Bits(r) = 54 THEN [m |-> ShiftRight(r, 1), e |-> e + 1] ELSE [m |-> r, e |-> e]

\* the d digits cut off n are more than half a unit of the kept digits, or
\* half a unit with the last kept digit odd
RoundsUp(n, d, kept, inexact) ==
    Bit(n, d) = 1 /\ (inexact \/ LowBits(n, d - 1) \/ Bit(kept, 1) = 1)

\* n with its last d digits cut off and rounded
RoundKept(n, e, d, kept, inexact) ==
    Carried(IF RoundsUp(n, d, kept, inexact) THEN AddCarry(kept, << >>, 1) ELSE kept, e + d)

\* n # 0 has `digits' binary digits: filled up to 53, or cut down to 53
RoundDigits(n, e, inexact, digits) ==
    IF digits <= 53
    THEN [m |-> ShiftLeft(n, 53 - digits), e |-> e - (53 - digits)]
    ELSE RoundKept(n, e, digits - 53, ShiftRight(n, digits - 53), inexact)

\* the double nearest to (n + f) * 2^e, where f is a fraction below 1 that is
\* not 0 exactly when inexact holds (n then has more than 53 digits); ties go
\* to the even mantissa
RoundToDouble(n, e, inexact) ==
    IF n = << >> THEN Zero ELSE RoundDigits(n, e, inexact, Bits(n))

\* a whole number as a double
ToDouble(n) == RoundToDouble(BigOf(n), 0, FALSE)

\* the double nearest to the quotient d.q * 2^e of a long division that
\* left d.r
Quotient(d, e) == RoundToDouble(d.q, e, d.r # << >>)

\* JSON.parse of a number written with one decimal, given in tenths
ParseTenths(k) ==
    Quotient(DivStep(58, BigOf(10), BigOf(k \div 10), BigOf(k % 10)), -58)

\* x + y
AddDouble(x, y) ==
    IF x.m = << >> THEN y
    ELSE IF y.m = << >> THEN x
    ELSE LET e == IF x.e < y.e THEN x.e ELSE y.e
         IN  RoundToDouble(AddBig(ShiftLeft(x.m, x.e - e), ShiftLeft(y.m, y.e - e)), e, FALSE)

\* x / y for y > 0: the first digit of the quotient of the mantissas, then 56
\* more
DivDouble(x, y) ==
    IF x.m = << >> THEN Zero
    ELSE Quotient(IF LessBig(x.m, y.m)
                  THEN DivStep(56, y.m, << >>, x.m)
                  ELSE DivStep(56, y.m, << 1 >>, SubBig(x.m, y.m)),
                  x.e - 56 - y.e)

\* Math.round(x) for x >= 0: the nearest whole number, halves upwards
MathRound(x) ==
    IF x.m = << >> THEN 0
    ELSE IF x.e >= 0 THEN NatOf(ShiftLeft(x.m, x.e))
    ELSE NatOf(ShiftRight(AddBig(x.m, ShiftLeft(<< 1 >>, -x.e - 1)), -x.e))

\* JavaScript Set: add keeps the insertion order, delete removes
SetHas(s, x) == x \in Range(s)
SetAdd(s, x) == IF SetHas(s, x) THEN s ELSE Append(s, x)
SetDelete(s, x) == SelectSeq(s, LAMBDA y : y # x)

\* Leaflet layer.bringToFront(): the layer's path becomes the last child
bringToFront(z, x) == Append(SelectSeq(z, LAMBDA y : y # x), x)

\* Leaflet layer.setStyle(): the given keys overwrite, the others stay
setStyle(st, f, patch) ==
    [st EXCEPT ![f] = [k \in DOMAIN st[f] |->
                          IF k \in DOMAIN patch THEN patch[k] ELSE st[f][k]]]

\* state.townshipLayers: filled by onEachFeature, one layer per feature
HasLayer(m, f) == f \in DOMAIN m.style

\* the merge of loadData: a feature's density is its record's, when it has one
FeatureDensity(pop, f) == IF f \in DOMAIN pop THEN pop[f].density ELSE 0

styleFeature(sel, pop, f) ==
    LET isSelected == SetHas(sel, f)
    IN  [ fillColor |-> getColor(FeatureDensity(pop, f)),
          weight |-> IF isSelected THEN BORDER_SELECTED.weight ELSE BORDER_UNSELECTED.weight,
          opacity |-> IF isSelected THEN BORDER_SELECTED.opacity ELSE BORDER_UNSELECTED.opacity,
          color |-> IF isSelected THEN BORDER_SELECTED.color ELSE BORDER_UNSELECTED.color ]

(***************************************************************************)
(* Bar charts (BarPlots module)                                            *)
(***************************************************************************)
\* Array.prototype.sort with (a, b) => b.key - a.key: stable, descending
RECURSIVE InsertDesc(_, _, _)
InsertDesc(sorted, x, field) ==
    IF sorted = << >> THEN << x >>
    ELSE IF Head(sorted)[field] >= x[field]
         THEN << Head(sorted) >> \o InsertDesc(Tail(sorted), x, field)
         ELSE << x >> \o sorted

RECURSIVE SortDesc(_, _)
SortDesc(data, field) ==
    IF data = << >> THEN << >>
    ELSE InsertDesc(SortDesc(SubSeq(data, 1, Len(data) - 1), field), data[Len(data)], field)

Names(data) == [i \in 1..Len(data) |-> data[i].name]

\* a chart container: what it shows and the size measured when it was rendered
Unrendered == [kind |-> "unrendered", bars |-> << >>, box |-> [width |-> 0, height |-> 0]]

\* renderChart: what the container shows afterwards
renderChart(present, box, old, data) ==
    LET needsScroll == Len(data) > maxVisibleBars
        effectiveHeight == IF needsScroll THEN box.height - scrollbarHeight ELSE box.height
        innerHeight == effectiveHeight - marginTop - bottomMargin
    IN  IF ~present THEN old
        ELSE IF box.width <= 0 \/ box.height <= 0
             THEN [kind |-> "loading", bars |-> << >>, box |-> box]
        ELSE IF Len(data) = 0 THEN [kind |-> "placeholder", bars |-> << >>, box |-> box]
        ELSE IF innerHeight <= 0 THEN [kind |-> "blank", bars |-> << >>, box |-> box]
        ELSE [kind |-> "bars", bars |-> Names(data), box |-> box]

\* BarPlots.init on the module state b = [initialized, lastData, charts]
BarPlotsInit(b) ==
    IF b.initialized THEN b
    ELSE IF ~d3Loaded THEN b
    ELSE IF ~containersPresent THEN b
    ELSE [b EXCEPT !.initialized = TRUE,
                   !.charts = [density |-> renderChart(containersPresent, bounds, b.charts.density, << >>),
                               population |-> renderChart(containersPresent, bounds, b.charts.population, << >>)]]

\* BarPlots.update(data)
BarPlotsUpdate(b, data) ==
    LET b1 == IF ~b.initialized THEN BarPlotsInit(b) ELSE b
        densityData == SortDesc(data, "density")
        populationData_ == SortDesc(data, "population")
    IN  IF ~b1.initialized THEN b1
        ELSE [b1 EXCEPT !.lastData = data,
                        !.charts = [density |-> renderChart(containersPresent, bounds, b1.charts.density, densityData),
                                    population |-> renderChart(containersPresent, bounds, b1.charts.population, populationData_)]]

\* BarPlots.refresh()
BarPlotsRefresh(b) ==
    IF b.initialized /\ Len(b.lastData) > 0 THEN BarPlotsUpdate(b, b.lastData) ELSE b

(***************************************************************************)
(* Views recomputed by updateUI.  m is the program state inside a handler: *)
(* geo, pop, total, sel, z, style, stats, list, buttons, exportDisabled,   *)
(* plots (the BarPlots module state) and calls (updateUI invocations).     *)
(***************************************************************************)
RECURSIVE SumOver(_, _, _)
SumOver(sel, pop, field) ==
    IF sel = << >> THEN 0
    ELSE (IF Head(sel) \in DOMAIN pop THEN pop[Head(sel)][field] ELSE 0)
         + SumOver(Tail(sel), pop, field)

\* totalArea += data.area, one selected region after the other in the order of
\* the Set, a region without a record skipped
RECURSIVE SumArea(_, _, _)
SumArea(sel, pop, totalArea) ==
    IF sel = << >> THEN totalArea
    ELSE SumArea(Tail(sel), pop,
                 IF Head(sel) \in DOMAIN pop
                 THEN AddDouble(totalArea, ParseTenths(pop[Head(sel)].area10))
                 ELSE totalArea)

\* the three figures of the summary block.  The populations are whole numbers
\* far below 2^53, which doubles add without rounding
figuresOf(totalPopulation, totalArea) ==
    [population |-> totalPopulation,
     area |-> MathRound(totalArea),
     density |-> IF totalArea.m # << >>
                 THEN MathRound(DivDouble(ToDouble(totalPopulation), totalArea))
                 ELSE 0]

summaryFigures(pop, sel) ==
    figuresOf(SumOver(sel, pop, "population"), SumArea(sel, pop, Zero))

\* mutant: the average density is taken from the rounded total area
figuresFromRoundedArea(pop, sel) ==
    figuresOf(SumOver(sel, pop, "population"), ToDouble(MathRound(SumArea(sel, pop, Zero))))

\* the regions of the geometry in every order in which a Set can hold them
RECURSIVE Orders(_)
Orders(S) ==
    IF S = {} THEN {<< >>}
    ELSE UNION {{Append(sel, f) : sel \in Orders(S \ {f})} : f \in S}

SelectionOrders == UNION {Orders(S) : S \in SUBSET Regions}

\* the figures of every document (none included) and selection order,
\* computed once
FiguresTable ==
    {<< pop, sel, summaryFigures(pop, sel) >> :
        pop \in PopulationDocs \cup {NullDoc}, sel \in SelectionOrders}

RoundedAreaTable ==
    {<< pop, sel, figuresFromRoundedArea(pop, sel) >> :
        pop \in PopulationDocs \cup {NullDoc}, sel \in SelectionOrders}

Tabulated(table, pop, sel) == (CHOOSE t \in table : t[1] = pop /\ t[2] = sel)[3]

\* the summary block: the count and the total always, the three figures and
\* the block itself when something is selected
showStats(m, count, figures) ==
    [m EXCEPT !.stats =
        IF count > 0
        THEN [count |-> count, total |-> m.total, visible |-> TRUE,
              population |-> figures.population,
              area |-> figures.area,
              density |-> figures.density]
        ELSE [m.stats EXCEPT !.count = count, !.total = m.total, !.visible = FALSE]]

\* mutant: the average density is taken from the rounded total area
updateStatsFromRoundedArea(m) ==
    showStats(m, Len(m.sel),
              IF m.pop \in PopulationDocs \cup {NullDoc} /\ m.sel \in SelectionOrders
              THEN Tabulated(RoundedAreaTable, m.pop, m.sel)
              ELSE figuresFromRoundedArea(m.pop, m.sel))

updateStats(m) ==
    showStats(m, Len(m.sel),
              IF m.pop \in PopulationDocs \cup {NullDoc} /\ m.sel \in SelectionOrders
              THEN Tabulated(FiguresTable, m.pop, m.sel)
              ELSE summaryFigures(m.pop, m.sel))

\* the county groups of the list panel, in the order the counties first
\* appear in the selection, then sorted by member count, descending
RECURSIVE GroupCounties(_, _, _)
GroupCounties(geo, sel, acc) ==
    IF sel = << >> THEN acc
    ELSE LET c == CountyIn(geo, Head(sel))
         IN  GroupCounties(geo, Tail(sel), IF c \in Range(acc) THEN acc ELSE Append(acc, c))

updateSelectedList(m) ==
    LET expandedCounties == {m.list[i].county : i \in {j \in 1..Len(m.list) : m.list[j].expanded}}
        inGeo == SelectSeq(m.sel, LAMBDA f : f \in FullNames(m.geo))
        order == GroupCounties(m.geo, inGeo, << >>)
        groups == [i \in 1..Len(order) |->
                     [county |-> order[i],
                      count |-> Len(SelectSeq(inGeo, LAMBDA f : CountyIn(m.geo, f) = order[i])),
                      members |-> SelectSeq(inGeo, LAMBDA f : CountyIn(m.geo, f) = order[i]),
                      expanded |-> order[i] \in expandedCounties]]
    IN  [m EXCEPT !.list = IF Len(m.sel) = 0 THEN << >>
                           ELSE SortDesc(groups, "count")]

\* the buttons are listed north to south; the model keeps the mark of each
updateCountyButtons(m) ==
    [m EXCEPT !.buttons =
        [c \in CountyNames(m.geo) |->
            \A i \in 1..Len(m.geo) :
                m.geo[i].COUNTYNAME = c => SetHas(m.sel, m.geo[i].FULLNAME)]]

updateExportButton(m) == [m EXCEPT !.exportDisabled = (Len(m.sel) = 0)]

\* the array updateBarPlots hands to BarPlots.update
selectedData(sel, pop) ==
    LET withData == SelectSeq(sel, LAMBDA f : f \in DOMAIN pop)
    IN  [i \in 1..Len(withData) |->
            [name |-> withData[i],
             population |-> pop[withData[i]].population,
             density |-> pop[withData[i]].density,
             area10 |-> pop[withData[i]].area10]]

updateBarPlots(m) ==
    [m EXCEPT !.plots = BarPlotsUpdate(m.plots, selectedData(m.sel, m.pop))]

\* updateUI.  Before the population document is there (m.pop is null)
\* updateStats throws at state.populationData[fullname] once the count and the
\* summary block are written; before the geometry is there (m.geo is null)
\* updateCountyButtons throws at state.geojsonData.features
updateUI(m) ==
    IF m.pop = NullDoc /\ Len(m.sel) > 0
    THEN [m EXCEPT !.stats = [m.stats EXCEPT !.count = Len(m.sel), !.total = m.total,
                                             !.visible = TRUE],
                   !.calls = m.calls + 1,
                   !.threw = TRUE]
    ELSE IF m.geo = NullDoc
    THEN [updateSelectedList(updateStats(m)) EXCEPT !.calls = m.calls + 1, !.threw = TRUE]
    ELSE [updateBarPlots(updateExportButton(updateCountyButtons(updateSelectedList(updateStats(m)))))
             EXCEPT !.calls = m.calls + 1]

(***************************************************************************)
(* Selection management                                                    *)
(***************************************************************************)
BorderOf(b) == [weight |-> b.weight, color |-> b.color, opacity |-> b.opacity]

\* bringSelectedToFront: every selected layer, in the set's iteration order
RECURSIVE RaiseEach(_, _)
RaiseEach(m, names) ==
    IF names = << >> THEN m
    ELSE RaiseEach(IF HasLayer(m, Head(names))
                   THEN [m EXCEPT !.z = bringToFront(m.z, Head(names))]
                   ELSE m,
                   Tail(names))

\* mutant: the selected layers are not raised
bringSelectedToFrontNothing(m) == m

bringSelectedToFront(m) == RaiseEach(m, m.sel)

\* mutant: selecting a selected region takes it out of the set
selectTownshipToggling(m, fullname, updateUIFlag) ==
    LET m1 == [m EXCEPT !.sel = IF SetHas(m.sel, fullname)
                                THEN SetDelete(m.sel, fullname)
                                ELSE SetAdd(m.sel, fullname)]
        m2 == IF HasLayer(m1, fullname)
              THEN [m1 EXCEPT !.style = setStyle(m1.style, fullname, BorderOf(BORDER_SELECTED)),
                              !.z = bringToFront(m1.z, fullname)]
              ELSE m1
    IN  IF updateUIFlag THEN updateUI(m2) ELSE m2

selectTownship(m, fullname, updateUIFlag) ==
    LET m1 == [m EXCEPT !.sel = SetAdd(m.sel, fullname)]
        m2 == IF HasLayer(m1, fullname)
              THEN [m1 EXCEPT !.style = setStyle(m1.style, fullname, BorderOf(BORDER_SELECTED)),
                              !.z = bringToFront(m1.z, fullname)]
              ELSE m1
    IN  IF updateUIFlag THEN updateUI(m2) ELSE m2

\* mutant: the set is asked to delete the layer, which it does not hold
deselectTownshipWrongKey(m, fullname, updateUIFlag) ==
    LET m2 == IF HasLayer(m, fullname)
              THEN [m EXCEPT !.style = setStyle(m.style, fullname, BorderOf(BORDER_UNSELECTED))]
              ELSE m
        m3 == bringSelectedToFront(m2)
    IN  IF updateUIFlag THEN updateUI(m3) ELSE m3

deselectTownship(m, fullname, updateUIFlag) ==
    LET m1 == [m EXCEPT !.sel = SetDelete(m.sel, fullname)]
        m2 == IF HasLayer(m1, fullname)
              THEN [m1 EXCEPT !.style = setStyle(m1.style, fullname, BorderOf(BORDER_UNSELECTED))]
              ELSE m1
        m3 == bringSelectedToFront(m2)
    IN  IF updateUIFlag THEN updateUI(m3) ELSE m3

RECURSIVE UnstyleEach(_, _)
UnstyleEach(m, names) ==
    IF names = << >> THEN m
    ELSE UnstyleEach(IF HasLayer(m, Head(names))
                     THEN [m EXCEPT !.style = setStyle(m.style, Head(names), BorderOf(BORDER_UNSELECTED))]
                     ELSE m,
                     Tail(names))

\* mutant: the set is cleared without resetting the layers' style
clearAllSelectionsKeepsStyle(m) ==
    updateUI([m EXCEPT !.sel = << >>])

clearAllSelections(m) ==
    updateUI([UnstyleEach(m, m.sel) EXCEPT !.sel = << >>])

RECURSIVE SelectEach(_, _)
SelectEach(m, names) ==
    IF names = << >> THEN m
    ELSE SelectEach(selectTownship(m, Head(names), FALSE), Tail(names))

\* mutant: selectTownship is called with its default updateUIFlag
RECURSIVE SelectEachUpdating(_, _)
SelectEachUpdating(m, names) ==
    IF names = << >> THEN m
    ELSE SelectEachUpdating(selectTownship(m, Head(names), TRUE), Tail(names))

selectAllTownshipsUpdatingEach(m) ==
    updateUI(SelectEachUpdating(m, [i \in 1..Len(m.geo) |-> m.geo[i].FULLNAME]))

\* mutant: only the regions of the population document are selected
selectAllTownshipsWithRecord(m) ==
    updateUI(SelectEach(m, SelectSeq([i \in 1..Len(m.geo) |-> m.geo[i].FULLNAME],
                                     LAMBDA f : f \in DOMAIN m.pop)))

selectAllTownships(m) ==
    updateUI(SelectEach(m, [i \in 1..Len(m.geo) |-> m.geo[i].FULLNAME]))

RECURSIVE DeselectEach(_, _)
DeselectEach(m, names) ==
    IF names = << >> THEN m
    ELSE DeselectEach(deselectTownship(m, Head(names), FALSE), Tail(names))

RECURSIVE SelectMissingEach(_, _)
SelectMissingEach(m, names) ==
    IF names = << >> THEN m
    ELSE SelectMissingEach(IF ~SetHas(m.sel, Head(names))
                           THEN selectTownship(m, Head(names), FALSE)
                           ELSE m,
                           Tail(names))

\* mutant: the county name is pushed instead of the region's full name
CountyTownshipsWrongKey(geo, countyName) ==
    LET members == SelectSeq(geo, LAMBDA feature : feature.COUNTYNAME = countyName)
    IN  [i \in 1..Len(members) |-> members[i].COUNTYNAME]

\* mutant: the features are not filtered by county
CountyTownshipsEveryCounty(geo, countyName) ==
    [i \in 1..Len(geo) |-> geo[i].FULLNAME]

CountyTownships(geo, countyName) ==
    LET members == SelectSeq(geo, LAMBDA feature : feature.COUNTYNAME = countyName)
    IN  [i \in 1..Len(members) |-> members[i].FULLNAME]

\* mutant: the toggle-off branch is missing
selectCountyAlwaysSelects(m, countyName) ==
    updateUI(bringSelectedToFront(SelectMissingEach(m, CountyTownships(m.geo, countyName))))

\* mutant: every region of the county is toggled on its own
RECURSIVE ToggleEach(_, _)
ToggleEach(m, names) ==
    IF names = << >> THEN m
    ELSE ToggleEach(IF SetHas(m.sel, Head(names))
                    THEN deselectTownship(m, Head(names), FALSE)
                    ELSE selectTownship(m, Head(names), FALSE),
                    Tail(names))

selectCountyPerRegion(m, countyName) ==
    updateUI(bringSelectedToFront(ToggleEach(m, CountyTownships(m.geo, countyName))))

\* before the geometry is there state.geojsonData.features throws at once
selectCounty(m, countyName) ==
    LET countyTownships == CountyTownships(m.geo, countyName)
        allSelected == \A i \in 1..Len(countyTownships) : SetHas(m.sel, countyTownships[i])
        m1 == IF allSelected
              THEN DeselectEach(m, countyTownships)
              ELSE SelectMissingEach(m, countyTownships)
    IN  IF m.geo = NullDoc THEN [m EXCEPT !.threw = TRUE]
        ELSE updateUI(bringSelectedToFront(m1))

(***************************************************************************)
(* Toast and export                                                        *)
(***************************************************************************)
\* showToast on t = [toasts, timers, count]: the first .toast of the document
\* is removed, a new one is appended and its own removal is scheduled
showToast(t) ==
    LET rest == IF t.toasts # << >> THEN Tail(t.toasts) ELSE t.toasts
        toast == t.count + 1
    IN  [toasts |-> Append(rest, toast),
         timers |-> Append(t.timers, toast),
         count |-> toast]

\* mutant: the timer removes whichever toast the document holds
toastTimeoutRemovesShown(t) ==
    [t EXCEPT !.toasts = IF t.toasts # << >> THEN Tail(t.toasts) ELSE t.toasts,
              !.timers = Tail(t.timers)]

\* the callback of the oldest pending timer: toast.remove() on its own toast
toastTimeout(t) ==
    [t EXCEPT !.toasts = SelectSeq(t.toasts, LAMBDA x : x # Head(t.timers)),
              !.timers = Tail(t.timers)]

\* the keys of a row object, in the order the literal lists them
RowKeys == << "Township", "County", "District", "Population", "Area_km2", "Density" >>

TownIn(geo, f) == geo[CHOOSE i \in 1..Len(geo) : geo[i].FULLNAME = f].TOWNNAME

\* the rows exportData collects: a selected region with a feature and a record
ExportRows(geo, pop, sel) ==
    LET kept == SelectSeq(sel, LAMBDA f : f \in FullNames(geo) /\ f \in DOMAIN pop)
    IN  [i \in 1..Len(kept) |->
            [Township |-> kept[i],
             County |-> CountyIn(geo, kept[i]),
             District |-> TownIn(geo, kept[i]),
             Population |-> pop[kept[i]].population,
             Area_km2 |-> pop[kept[i]].area10,
             Density |-> pop[kept[i]].density]]

\* a line of the file: the cells that join(',') strings together
CsvLine(row, headers) == [j \in 1..Len(headers) |-> row[headers[j]]]

\* exportData past the empty-selection test: the loop throws a TypeError on a
\* null document, Object.keys(data[0]) throws one when no row was collected,
\* else the file is downloaded
exportCsv(geo, pop, sel) ==
    LET data == ExportRows(geo, pop, sel)
    IN  IF geo = NullDoc \/ pop = NullDoc \/ data = << >>
        THEN [outcome |-> "threw", sel |-> sel, bom |-> FALSE, lines |-> << >>]
        ELSE [outcome |-> "file", sel |-> sel, bom |-> TRUE,
              lines |-> << RowKeys >> \o [i \in 1..Len(data) |-> CsvLine(data[i], RowKeys)]]

(***************************************************************************)
(* The state machine                                                       *)
(***************************************************************************)
Cur ==
    [ geo |-> geojsonData, pop |-> populationData, total |-> totalTownships,
      sel |-> selectedTownships, z |-> zOrder, style |-> layerStyle,
      stats |-> stats, list |-> selectedList, buttons |-> countyButtons,
      exportDisabled |-> exportDisabled,
      plots |-> [initialized |-> initialized, lastData |-> lastData, charts |-> charts],
      calls |-> 0, threw |-> FALSE ]

Commit(m) ==
    /\ selectedTownships' = m.sel
    /\ zOrder' = m.z
    /\ layerStyle' = m.style
    /\ stats' = m.stats
    /\ selectedList' = m.list
    /\ countyButtons' = m.buttons
    /\ exportDisabled' = m.exportDisabled
    /\ initialized' = m.plots.initialized
    /\ lastData' = m.plots.lastData
    /\ charts' = m.plots.charts
    /\ updated' = (updated \/ (m.calls > 0 /\ ~m.threw /\ m.plots.initialized))

\* the export and the toast of the page, which the selection handlers leave alone
ToastVars == << exported, toasts, toastTimers, toastCount >>

\* what only the probe of getColor, the list panel's headers and the window
\* load handler change
PageVars == << colorProbe, userExpanded, windowLoad >>

\* the progress of the document
DocVars == << readyState, domContentLoaded >>

NoProbe == [applied |-> FALSE, lo |-> 0, hi |-> 0, bucketLo |-> 0, bucketHi |-> 0,
            colorLo |-> "", colorHi |-> ""]

NoExport == [outcome |-> "none", sel |-> << >>, bom |-> FALSE, lines |-> << >>]

NoLast ==
    [op |-> "none", arg |-> NoRegion, before |-> {}, same |-> FALSE, within |-> FALSE,
     rep |-> FALSE, before2 |-> {}, calls |-> 0, threw |-> FALSE]

NoGesture ==
    [phase |-> 0, target |-> NoRegion, t0 |-> 0, first |-> FALSE,
     was |-> FALSE, flash |-> FALSE, second |-> FALSE]

\* history of a handler that ran: its name and argument, the selection before
\* it, whether its region was the last clicked one and how recent that click
\* was, whether it repeats the call before it (for a county toggle, also the
\* selection before that one), the number of updateUI calls it made and
\* whether it ended in an exception
Record(op, arg, m) ==
    [op |-> op, arg |-> arg, before |-> Range(selectedTownships),
     same |-> (lastClickedTownship = arg),
     within |-> ((now - lastClickTime) < DOUBLE_CLICK_THRESHOLD),
     rep |-> (op \in {"selectCounty", "select", "deselect"}
              /\ last.op = op /\ last.arg = arg),
     before2 |-> IF op = "selectCounty" /\ last.op = op /\ last.arg = arg
                 THEN last.before ELSE {},
     calls |-> m.calls, threw |-> m.threw]

\* the chart module as its closure creates it
NoPlots ==
    [initialized |-> FALSE, lastData |-> << >>,
     charts |-> [density |-> Unrendered, population |-> Unrendered]]

\* tryInit on the chart module state b: BarPlots.init() when both containers
\* are in the document, else a retry 100 ms later
tryInit(b) ==
    IF containersPresent
    THEN [plots |-> BarPlotsInit(b), retry |-> FALSE]
    ELSE [plots |-> b, retry |-> TRUE]

\* where the document is when the script runs: still being parsed; parsed, with
\* DOMContentLoaded still to come (a deferred script); parsed, with the event
\* over; or complete (a script added later)
ScriptRuns ==
    { [readyState |-> "loading", domContentLoaded |-> FALSE],
      [readyState |-> "interactive", domContentLoaded |-> FALSE],
      [readyState |-> "interactive", domContentLoaded |-> TRUE],
      [readyState |-> "complete", domContentLoaded |-> TRUE] }

\* the state the script leaves when it has run: the program's initial values,
\* the listeners added, and tryInit called at once when the document is no
\* longer loading
Init ==
    /\ phase = "loading"
    /\ geojsonData = NullDoc
    /\ populationData = NullDoc
    /\ totalTownships = 0
    /\ selectedTownships = << >>
    /\ zOrder = << >>
    /\ layerStyle = << >>
    /\ lastClickTime = 0
    /\ lastClickedTownship = NoRegion
    /\ now = 0
    /\ hovered = NoRegion
    /\ infoBox = [display |-> FALSE, name |-> NoRegion]
    /\ stats = [count |-> 0, total |-> 0, visible |-> FALSE,
                population |-> 0, area |-> 0, density |-> 0]
    /\ selectedList = << >>
    /\ countyButtons = << >>
    /\ exportDisabled \in BOOLEAN
    /\ d3Loaded \in BOOLEAN
    /\ containersPresent \in BOOLEAN
    /\ bounds \in ContainerBoxes
    /\ \E at \in ScriptRuns : readyState = at.readyState /\ domContentLoaded = at.domContentLoaded
    /\ LET t == IF readyState = "loading"
                THEN [plots |-> NoPlots, retry |-> FALSE]
                ELSE tryInit(NoPlots)
       IN  /\ initialized = t.plots.initialized
           /\ lastData = t.plots.lastData
           /\ charts = t.plots.charts
           /\ tryInitTimer = IF t.retry THEN 1 ELSE 0
    /\ last = NoLast
    /\ gesture = NoGesture
    /\ exported = NoExport
    /\ toasts = << >>
    /\ toastTimers = << >>
    /\ toastCount = 0
    /\ setupLog = << >>
    /\ awaiting = "DOMContentLoaded"
    /\ colorProbe = NoProbe
    /\ userExpanded = {}
    /\ windowLoad = "before"
    /\ updated = FALSE

\* mutant: init() goes on whatever loadData returned
initWithoutTest(dataLoaded) ==
    << "initMap", "loadData", "createGeoJSONLayer", "createLegend",
       "setupEventListeners", "updateUI" >>

\* the calls of init(), given what loadData returned
init(dataLoaded) ==
    << "initMap", "loadData" >> \o
    (IF dataLoaded
     THEN << "createGeoJSONLayer", "createLegend", "setupEventListeners", "updateUI" >>
     ELSE << >>)

\* DOMContentLoaded: the listeners of the event in the order the script added
\* them.  tryInit first, when the script ran while the document was loading,
\* then init(), which runs initMap and loadData up to its first await
DOMContentLoaded ==
    /\ ~domContentLoaded
    /\ awaiting = "DOMContentLoaded"
    /\ IF readyState = "loading"
       THEN LET t == tryInit([initialized |-> initialized, lastData |-> lastData, charts |-> charts])
            IN  /\ initialized' = t.plots.initialized
                /\ lastData' = t.plots.lastData
                /\ charts' = t.plots.charts
                /\ tryInitTimer' = IF t.retry THEN 1 ELSE 0
       ELSE UNCHANGED << initialized, lastData, charts, tryInitTimer >>
    /\ domContentLoaded' = TRUE
    /\ readyState' = "interactive"
    /\ awaiting' = "fetchGeometry"
    /\ setupLog' = << "initMap", "loadData" >>
    /\ UNCHANGED << phase, geojsonData, populationData, totalTownships, d3Loaded,
                    containersPresent, bounds, selectedTownships, zOrder, layerStyle,
                    lastClickTime, lastClickedTownship, now, hovered, infoBox, stats,
                    selectedList, countyButtons, exportDisabled, last, gesture,
                    ToastVars, PageVars, updated >>

\* loadData resumes from the await it is suspended on: the fetch and the parse
\* of the geometry, then of the population document.  A failure of either
\* document ends in the catch; the last parse goes on, without returning to
\* the event loop, with the merge, updateStats and the rest of init()
loadData(outcome, doc) ==
    /\ phase = "loading"
    /\ CASE outcome = "ok" /\ awaiting = "fetchGeometry" ->
              /\ awaiting' = "parseGeometry"
              /\ UNCHANGED << phase, geojsonData, populationData, totalTownships,
                              selectedTownships, zOrder, layerStyle, stats, selectedList,
                              countyButtons, exportDisabled, initialized, lastData,
                              charts, setupLog, updated >>
         [] outcome = "ok" /\ awaiting = "parseGeometry" ->
              /\ awaiting' = "fetchPopulation"
              /\ geojsonData' = GeoDoc
              /\ UNCHANGED << phase, populationData, totalTownships,
                              selectedTownships, zOrder, layerStyle, stats, selectedList,
                              countyButtons, exportDisabled, initialized, lastData,
                              charts, setupLog, updated >>
         [] outcome = "ok" /\ awaiting = "fetchPopulation" ->
              /\ awaiting' = "parsePopulation"
              /\ UNCHANGED << phase, geojsonData, populationData, totalTownships,
                              selectedTownships, zOrder, layerStyle, stats, selectedList,
                              countyButtons, exportDisabled, initialized, lastData,
                              charts, setupLog, updated >>
         [] outcome = "ok" /\ awaiting = "parsePopulation" ->
              LET m0 == [Cur EXCEPT !.pop = doc, !.total = Len(geojsonData)]
                  m1 == updateStats(m0)
                  \* createGeoJSONLayer: one layer per feature, in document order
                  m2 == [m1 EXCEPT !.z = [i \in 1..Len(m1.geo) |-> m1.geo[i].FULLNAME],
                                   !.style = [f \in FullNames(m1.geo) |-> styleFeature(m1.sel, m1.pop, f)]]
                  m3 == updateUI(m2)
              IN  /\ awaiting' = "none"
                  /\ phase' = "ready"
                  /\ setupLog' = init(TRUE)
                  /\ populationData' = m3.pop
                  /\ totalTownships' = m3.total
                  /\ Commit(m3)
                  /\ UNCHANGED geojsonData
         [] \/ outcome = "geometryFails" /\ awaiting \in {"fetchGeometry", "parseGeometry"}
            \/ outcome = "populationFails" /\ awaiting \in {"fetchPopulation", "parsePopulation"} ->
              /\ awaiting' = "none"
              /\ phase' = "failed"
              /\ setupLog' = init(FALSE)
              /\ UNCHANGED << geojsonData, populationData, totalTownships,
                              selectedTownships, zOrder, layerStyle, stats, selectedList,
                              countyButtons, exportDisabled, initialized, lastData, charts, updated >>
         [] OTHER -> FALSE
    /\ UNCHANGED << lastClickTime, lastClickedTownship, now, hovered, infoBox,
                    d3Loaded, containersPresent, bounds, last, gesture, ToastVars,
                    tryInitTimer, PageVars, DocVars >>

Static == << phase, geojsonData, populationData, totalTownships, d3Loaded,
             containersPresent, bounds, ToastVars, setupLog, awaiting, tryInitTimer,
             PageVars, DocVars >>

\* mutant: the threshold itself still counts as a double-click
isDoubleClickInclusive(fullname) ==
    /\ lastClickedTownship = fullname
    /\ (now - lastClickTime) <= DOUBLE_CLICK_THRESHOLD

\* the test of handleClick for the second click of a double-click
isDoubleClick(fullname) ==
    /\ lastClickedTownship = fullname
    /\ (now - lastClickTime) < DOUBLE_CLICK_THRESHOLD

handleClick(fullname) ==
    /\ phase = "ready"
    /\ LET early == isDoubleClick(fullname)
           m == IF ~early /\ ~SetHas(selectedTownships, fullname)
                THEN selectTownship(Cur, fullname, TRUE)
                ELSE Cur
           continues == /\ gesture.phase = 1
                        /\ gesture.target = fullname
                        /\ (now - gesture.t0) < DOUBLE_CLICK_THRESHOLD
       IN  /\ lastClickTime' = IF early THEN lastClickTime ELSE now
           /\ lastClickedTownship' = IF early THEN lastClickedTownship ELSE fullname
           /\ Commit(m)
           /\ last' = Record("click", fullname, m)
           /\ gesture' = IF continues
                         THEN [gesture EXCEPT !.phase = 2,
                                              !.second = (Range(m.sel) # Range(selectedTownships))]
                         ELSE [phase |-> 1, target |-> fullname, t0 |-> now,
                               first |-> ~(lastClickedTownship = fullname
                                           /\ (now - lastClickTime) < DOUBLE_CLICK_THRESHOLD),
                               was |-> SetHas(selectedTownships, fullname),
                               flash |-> SetHas(m.sel, fullname), second |-> FALSE]
    /\ UNCHANGED << Static, now, hovered, infoBox >>

handleDoubleClick(fullname) ==
    /\ phase = "ready"
    /\ LET m == IF SetHas(selectedTownships, fullname)
                THEN deselectTownship(Cur, fullname, TRUE)
                ELSE Cur
       IN  /\ Commit(m)
           /\ last' = Record("dblclick", fullname, m)
           /\ gesture' = IF /\ gesture.phase = 2
                            /\ gesture.target = fullname
                            /\ (now - gesture.t0) < DOUBLE_CLICK_THRESHOLD
                         THEN [gesture EXCEPT !.phase = 3]
                         ELSE NoGesture
    /\ UNCHANGED << Static, lastClickTime, lastClickedTownship, now, hovered, infoBox >>

\* the keys handleMouseOver gives to setStyle
HoverStyle == [weight |-> 2, color |-> "#666"]

handleMouseOver(fullname) ==
    /\ phase = "ready"
    /\ hovered = NoRegion
    /\ LET m1 == IF ~SetHas(selectedTownships, fullname)
                 THEN [Cur EXCEPT !.style = setStyle(Cur.style, fullname, HoverStyle)]
                 ELSE Cur
           m2 == [m1 EXCEPT !.z = bringToFront(m1.z, fullname)]
           m3 == bringSelectedToFront(m2)
       IN  Commit(m3)
    /\ hovered' = fullname
    /\ infoBox' = [display |-> TRUE, name |-> fullname]
    /\ UNCHANGED << Static, lastClickTime, lastClickedTownship, now, last, gesture >>

handleMouseOut(fullname) ==
    /\ phase = "ready"
    /\ hovered = fullname
    /\ LET m == IF ~SetHas(selectedTownships, fullname)
                THEN [Cur EXCEPT !.style = setStyle(Cur.style, fullname, BorderOf(BORDER_UNSELECTED))]
                ELSE Cur
       IN  Commit(m)
    /\ hovered' = NoRegion
    /\ infoBox' = [infoBox EXCEPT !.display = FALSE]
    /\ UNCHANGED << Static, lastClickTime, lastClickedTownship, now, last, gesture >>

\* the remove button of a listed township
removeTownshipFromList(fullname) ==
    /\ phase = "ready"
    /\ \E i \in 1..Len(selectedList) : fullname \in Range(selectedList[i].members)
    /\ LET m == deselectTownship(Cur, fullname, TRUE)
       IN  /\ Commit(m)
           /\ last' = Record("remove", fullname, m)
    /\ gesture' = NoGesture
    /\ UNCHANGED << Static, lastClickTime, lastClickedTownship, now, hovered, infoBox >>

\* selectTownship(fullname) called on its own, with the default updateUIFlag;
\* the functions of the script can be called from the moment it has run
callSelectTownship(fullname) ==
    /\ LET m == selectTownship(Cur, fullname, TRUE)
       IN  /\ Commit(m)
           /\ last' = Record("select", fullname, m)
    /\ gesture' = NoGesture
    /\ UNCHANGED << Static, lastClickTime, lastClickedTownship, now, hovered, infoBox >>

\* window.deselectTownship(fullname)
callDeselectTownship(fullname) ==
    /\ LET m == deselectTownship(Cur, fullname, TRUE)
       IN  /\ Commit(m)
           /\ last' = Record("deselect", fullname, m)
    /\ gesture' = NoGesture
    /\ UNCHANGED << Static, lastClickTime, lastClickedTownship, now, hovered, infoBox >>

ClearButton ==
    /\ phase = "ready"
    /\ LET m == clearAllSelections(Cur)
       IN  /\ Commit(m)
           /\ last' = Record("clear", NoRegion, m)
    /\ gesture' = NoGesture
    /\ UNCHANGED << Static, lastClickTime, lastClickedTownship, now, hovered, infoBox >>

SelectAllButton ==
    /\ phase = "ready"
    /\ LET m == selectAllTownships(Cur)
       IN  /\ Commit(m)
           /\ last' = Record("selectAll", NoRegion, m)
    /\ gesture' = NoGesture
    /\ UNCHANGED << Static, lastClickTime, lastClickedTownship, now, hovered, infoBox >>

\* window.selectCounty(countyName)
callSelectCounty(countyName) ==
    /\ LET m == selectCounty(Cur, countyName)
       IN  /\ Commit(m)
           /\ last' = Record("selectCounty", countyName, m)
    /\ gesture' = NoGesture
    /\ UNCHANGED << Static, lastClickTime, lastClickedTownship, now, hovered, infoBox >>

\* a button of the county panel, which updateCountyButtons has rendered
CountyButton(countyName) ==
    /\ countyName \in DOMAIN countyButtons
    /\ LET m == selectCounty(Cur, countyName)
       IN  /\ Commit(m)
           /\ last' = Record("selectCounty", countyName, m)
    /\ gesture' = NoGesture
    /\ UNCHANGED << Static, lastClickTime, lastClickedTownship, now, hovered, infoBox >>

\* toggleCountyGroup(header): the header of a county group is clicked
toggleCountyGroup(countyName) ==
    /\ phase = "ready"
    /\ \E i \in 1..Len(selectedList) :
          /\ selectedList[i].county = countyName
          /\ selectedList' = [selectedList EXCEPT ![i].expanded = ~selectedList[i].expanded]
          /\ userExpanded' = IF selectedList[i].expanded
                             THEN userExpanded \ {countyName}
                             ELSE userExpanded \cup {countyName}
    /\ UNCHANGED << phase, geojsonData, populationData, totalTownships, d3Loaded,
                    containersPresent, bounds, selectedTownships, zOrder, layerStyle,
                    lastClickTime, lastClickedTownship, now, hovered, infoBox, stats,
                    countyButtons, exportDisabled, initialized, lastData,
                    charts, last, gesture, ToastVars, setupLog, awaiting, tryInitTimer,
                    colorProbe, windowLoad, DocVars, updated >>

\* getColor is applied to the two densities of the probe
applyGetColor ==
    /\ ~colorProbe.applied
    /\ colorProbe' = [colorProbe EXCEPT
                         !.applied = TRUE,
                         !.bucketLo = getColorFrom(colorProbe.lo, Len(COLOR_GRADES)),
                         !.bucketHi = getColorFrom(colorProbe.hi, Len(COLOR_GRADES)),
                         !.colorLo = getColor(colorProbe.lo),
                         !.colorHi = getColor(colorProbe.hi)]
    /\ UNCHANGED << phase, geojsonData, populationData, totalTownships, d3Loaded,
                    containersPresent, bounds, selectedTownships, zOrder, layerStyle,
                    lastClickTime, lastClickedTownship, now, hovered, infoBox, stats,
                    selectedList, countyButtons, exportDisabled, initialized, lastData,
                    charts, last, gesture, ToastVars, setupLog, awaiting, tryInitTimer,
                    userExpanded, windowLoad, DocVars, updated >>

\* exportData, the listener of #btn-export and a global function that can be
\* called from the moment the script has run; it tests the selection itself.
\* With something selected and a document still null it throws at
\* state.geojsonData.features or at state.populationData[fullname]
exportData ==
    /\ IF Len(selectedTownships) = 0
       THEN /\ toastCount < MaxToasts
            /\ LET t == showToast([toasts |-> toasts, timers |-> toastTimers, count |-> toastCount])
               IN  /\ toasts' = t.toasts
                   /\ toastTimers' = t.timers
                   /\ toastCount' = t.count
            /\ exported' = [outcome |-> "toast", sel |-> << >>, bom |-> FALSE, lines |-> << >>]
       ELSE /\ exported' = exportCsv(geojsonData, populationData, selectedTownships)
            /\ UNCHANGED << toasts, toastTimers, toastCount >>
    /\ UNCHANGED << phase, geojsonData, populationData, totalTownships, d3Loaded,
                    containersPresent, bounds, selectedTownships, zOrder, layerStyle,
                    lastClickTime, lastClickedTownship, now, hovered, infoBox, stats,
                    selectedList, countyButtons, exportDisabled, initialized, lastData,
                    charts, last, gesture, setupLog, awaiting, tryInitTimer, PageVars,
                    DocVars, updated >>

\* a 2000 ms timer of showToast expires; equal delays expire in the order set
toastTimer ==
    /\ toastTimers # << >>
    /\ LET t == toastTimeout([toasts |-> toasts, timers |-> toastTimers, count |-> toastCount])
       IN  /\ toasts' = t.toasts
           /\ toastTimers' = t.timers
    /\ UNCHANGED << phase, geojsonData, populationData, totalTownships, d3Loaded,
                    containersPresent, bounds, selectedTownships, zOrder, layerStyle,
                    lastClickTime, lastClickedTownship, now, hovered, infoBox, stats,
                    selectedList, countyButtons, exportDisabled, initialized, lastData,
                    charts, last, gesture, exported, toastCount, setupLog, awaiting,
                    tryInitTimer, PageVars, DocVars, updated >>

\* the 100 ms timer of tryInit expires: tryInit again
tryInitRetry ==
    /\ tryInitTimer > 0
    /\ LET t == tryInit([initialized |-> initialized, lastData |-> lastData, charts |-> charts])
       IN  /\ initialized' = t.plots.initialized
           /\ lastData' = t.plots.lastData
           /\ charts' = t.plots.charts
           /\ IF t.retry
              THEN /\ tryInitTimer < MaxRetries
                   /\ tryInitTimer' = tryInitTimer + 1
              ELSE tryInitTimer' = 0
    /\ UNCHANGED << phase, geojsonData, populationData, totalTownships, d3Loaded,
                    containersPresent, bounds, selectedTownships, zOrder, layerStyle,
                    lastClickTime, lastClickedTownship, now, hovered, infoBox, stats,
                    selectedList, countyButtons, exportDisabled, last, gesture,
                    ToastVars, setupLog, awaiting, PageVars, DocVars, updated >>

\* the window load handler: BarPlots.init() and the refresh set for 500 ms
\* later.  The load event comes after DOMContentLoaded, when the document is
\* complete; a script that ran in a complete document does not see it
windowLoadHandler ==
    /\ domContentLoaded
    /\ readyState = "interactive"
    /\ windowLoad = "before"
    /\ LET b == BarPlotsInit([initialized |-> initialized, lastData |-> lastData, charts |-> charts])
       IN  /\ initialized' = b.initialized
           /\ lastData' = b.lastData
           /\ charts' = b.charts
    /\ windowLoad' = "pending"
    /\ readyState' = "complete"
    /\ UNCHANGED << phase, geojsonData, populationData, totalTownships, d3Loaded,
                    containersPresent, bounds, selectedTownships, zOrder, layerStyle,
                    lastClickTime, lastClickedTownship, now, hovered, infoBox, stats,
                    selectedList, countyButtons, exportDisabled, last, gesture,
                    ToastVars, setupLog, awaiting, tryInitTimer, colorProbe, userExpanded,
                    domContentLoaded, updated >>

\* the timer of the window load handler expires: BarPlots.refresh()
delayedRefresh ==
    /\ windowLoad = "pending"
    /\ LET b == BarPlotsRefresh([initialized |-> initialized, lastData |-> lastData, charts |-> charts])
       IN  /\ initialized' = b.initialized
           /\ lastData' = b.lastData
           /\ charts' = b.charts
    /\ windowLoad' = "done"
    /\ UNCHANGED << phase, geojsonData, populationData, totalTownships, d3Loaded,
                    containersPresent, bounds, selectedTownships, zOrder, layerStyle,
                    lastClickTime, lastClickedTownship, now, hovered, infoBox, stats,
                    selectedList, countyButtons, exportDisabled, last, gesture,
                    ToastVars, setupLog, awaiting, tryInitTimer, colorProbe, userExpanded,
                    DocVars, updated >>

\* the layout gives the chart containers another size
Layout(box) ==
    /\ box # bounds
    /\ bounds' = box
    /\ UNCHANGED << phase, geojsonData, populationData, totalTownships, d3Loaded,
                    containersPresent, selectedTownships, zOrder, layerStyle,
                    lastClickTime, lastClickedTownship, now, hovered, infoBox, stats,
                    selectedList, countyButtons, exportDisabled, initialized, lastData,
                    charts, last, gesture, ToastVars, setupLog, awaiting, tryInitTimer,
                    PageVars, DocVars, updated >>

\* the two chart containers, missing when the script ran, are now in the
\* document
ContainersAppear ==
    /\ ~containersPresent
    /\ containersPresent' = TRUE
    /\ UNCHANGED << phase, geojsonData, populationData, totalTownships, d3Loaded,
                    bounds, selectedTownships, zOrder, layerStyle,
                    lastClickTime, lastClickedTownship, now, hovered, infoBox, stats,
                    selectedList, countyButtons, exportDisabled, initialized, lastData,
                    charts, last, gesture, ToastVars, setupLog, awaiting, tryInitTimer,
                    PageVars, DocVars, updated >>

\* the d3 library, not yet defined when the script ran, has loaded
D3Loads ==
    /\ ~d3Loaded
    /\ d3Loaded' = TRUE
    /\ UNCHANGED << phase, geojsonData, populationData, totalTownships,
                    containersPresent, bounds, selectedTownships, zOrder, layerStyle,
                    lastClickTime, lastClickedTownship, now, hovered, infoBox, stats,
                    selectedList, countyButtons, exportDisabled, initialized, lastData,
                    charts, last, gesture, ToastVars, setupLog, awaiting, tryInitTimer,
                    PageVars, DocVars, updated >>

Tick ==
    /\ phase = "ready"
    /\ now < MaxTicks * ClockStep
    /\ now' = now + ClockStep
    /\ UNCHANGED << Static, selectedTownships, zOrder, layerStyle, lastClickTime,
                    lastClickedTownship, hovered, infoBox, stats, selectedList,
                    countyButtons, exportDisabled, initialized, lastData, charts,
                    last, gesture, updated >>

Next ==
    \/ DOMContentLoaded
    \/ \E outcome \in {"ok", "geometryFails", "populationFails"}, doc \in PopulationDocs :
          loadData(outcome, doc)
    \/ \E fullname \in Regions : handleClick(fullname)
    \/ \E fullname \in Regions : handleDoubleClick(fullname)
    \/ \E fullname \in Regions : handleMouseOver(fullname)
    \/ \E fullname \in Regions : handleMouseOut(fullname)
    \/ \E fullname \in Regions : removeTownshipFromList(fullname)
    \/ ClearButton
    \/ SelectAllButton
    \/ \E countyName \in Counties : CountyButton(countyName)
    \/ tryInitRetry
    \/ \E box \in ContainerBoxes : Layout(box)
    \/ ContainersAppear
    \/ D3Loads
    \/ Tick
    \/ exportData
    \/ toastTimer
    \/ applyGetColor
    \/ \E countyName \in Counties : toggleCountyGroup(countyName)
    \/ \E fullname \in Regions : callSelectTownship(fullname)
    \/ \E fullname \in Regions : callDeselectTownship(fullname)
    \/ windowLoadHandler
    \/ delayedRefresh
    \/ \E countyName \in Counties : callSelectCounty(countyName)

Spec == Init /\ [][Next]_vars

(***************************************************************************)
(* Specifications.  Spec is the whole program.  The others keep part of    *)
(* the environment fixed: SpecSelect is the map and the selection with the *)
(* chart module in working order and the clock standing still, SpecClick   *)
(* lets the clock run for the click / double-click timing, SpecCharts lets *)
(* the chart module's environment vary: d3 and the containers may be there *)
(* from the start or turn up later, and the layout changes.                *)
(***************************************************************************)
InitNominal ==
    /\ Init
    /\ d3Loaded
    /\ containersPresent
    /\ bounds = [width |-> 300, height |-> 200]

NextSelect ==
    \/ DOMContentLoaded
    \/ \E outcome \in {"ok", "geometryFails", "populationFails"}, doc \in PopulationDocs :
          loadData(outcome, doc)
    \/ \E fullname \in Regions : handleClick(fullname)
    \/ \E fullname \in Regions : handleDoubleClick(fullname)
    \/ \E fullname \in Regions : handleMouseOver(fullname)
    \/ \E fullname \in Regions : handleMouseOut(fullname)
    \/ \E fullname \in Regions : removeTownshipFromList(fullname)
    \/ ClearButton
    \/ SelectAllButton
    \/ \E countyName \in Counties : CountyButton(countyName)

SpecSelect == InitNominal /\ [][NextSelect]_vars

NextClick ==
    \/ DOMContentLoaded
    \/ \E outcome \in {"ok", "geometryFails", "populationFails"}, doc \in PopulationDocs :
          loadData(outcome, doc)
    \/ \E fullname \in Regions : handleClick(fullname)
    \/ \E fullname \in Regions : handleDoubleClick(fullname)
    \/ \E fullname \in Regions : removeTownshipFromList(fullname)
    \/ ClearButton
    \/ \E countyName \in Counties : CountyButton(countyName)
    \/ Tick

SpecClick == InitNominal /\ [][NextClick]_vars

NextCharts ==
    \/ DOMContentLoaded
    \/ \E outcome \in {"ok", "geometryFails", "populationFails"}, doc \in PopulationDocs :
          loadData(outcome, doc)
    \/ \E fullname \in Regions : handleClick(fullname)
    \/ \E fullname \in Regions : handleDoubleClick(fullname)
    \/ \E fullname \in Regions : removeTownshipFromList(fullname)
    \/ ClearButton
    \/ SelectAllButton
    \/ \E countyName \in Counties : CountyButton(countyName)
    \/ tryInitRetry
    \/ \E box \in ContainerBoxes : Layout(box)
    \/ ContainersAppear
    \/ D3Loads

SpecCharts == Init /\ [][NextCharts]_vars

\* the non-negative densities within ProbeSpread of a grade
Densities ==
    {d \in UNION {(COLOR_GRADES[i] - ProbeSpread)..(COLOR_GRADES[i] + ProbeSpread) :
                     i \in 1..Len(COLOR_GRADES)} : d >= 0}

\* the colour scale: getColor on a pair of densities, and the fill colours the
\* regions get when the layer is created
InitColor ==
    /\ phase = "loading"
    /\ geojsonData = NullDoc
    /\ populationData = NullDoc
    /\ totalTownships = 0
    /\ selectedTownships = << >>
    /\ zOrder = << >>
    /\ layerStyle = << >>
    /\ lastClickTime = 0
    /\ lastClickedTownship = NoRegion
    /\ now = 0
    /\ hovered = NoRegion
    /\ infoBox = [display |-> FALSE, name |-> NoRegion]
    /\ stats = [count |-> 0, total |-> 0, visible |-> FALSE,
                population |-> 0, area |-> 0, density |-> 0]
    /\ selectedList = << >>
    /\ countyButtons = << >>
    /\ exportDisabled = FALSE
    /\ d3Loaded = TRUE
    /\ containersPresent = TRUE
    /\ bounds = [width |-> 300, height |-> 200]
    /\ initialized = FALSE
    /\ lastData = << >>
    /\ charts = [density |-> Unrendered, population |-> Unrendered]
    /\ last = NoLast
    /\ gesture = NoGesture
    /\ exported = NoExport
    /\ toasts = << >>
    /\ toastTimers = << >>
    /\ toastCount = 0
    /\ setupLog = << >>
    /\ awaiting = "DOMContentLoaded"
    /\ tryInitTimer = 0
    /\ colorProbe \in {[NoProbe EXCEPT !.lo = lo, !.hi = hi] :
                          lo \in Densities, hi \in Densities}
    /\ userExpanded = {}
    /\ windowLoad = "before"
    /\ readyState = "loading"
    /\ domContentLoaded = FALSE
    /\ updated = FALSE

NextColor ==
    \/ applyGetColor
    \/ DOMContentLoaded
    \/ \E outcome \in {"ok", "geometryFails", "populationFails"}, doc \in PopulationDocs :
          loadData(outcome, doc)

SpecColor == InitColor /\ [][NextColor]_vars

\* the chart module with its start-up: tryInit, the window load handler and its
\* delayed refresh, in an environment that changes
NextPlots ==
    \/ DOMContentLoaded
    \/ \E outcome \in {"ok", "geometryFails", "populationFails"}, doc \in PopulationDocs :
          loadData(outcome, doc)
    \/ \E fullname \in Regions : handleClick(fullname)
    \/ \E fullname \in Regions : removeTownshipFromList(fullname)
    \/ ClearButton
    \/ tryInitRetry
    \/ windowLoadHandler
    \/ delayedRefresh
    \/ \E box \in ContainerBoxes : Layout(box)
    \/ ContainersAppear
    \/ D3Loads

SpecPlots == Init /\ [][NextPlots]_vars

\* the toast: exports of the empty selection and the timers of their toasts;
\* the event loop runs the callback of every timer that has expired
NextToast ==
    \/ DOMContentLoaded
    \/ \E outcome \in {"ok", "geometryFails", "populationFails"}, doc \in PopulationDocs :
          loadData(outcome, doc)
    \/ \E fullname \in Regions : handleClick(fullname)
    \/ ClearButton
    \/ exportData
    \/ toastTimer

SpecToast == InitNominal /\ [][NextToast]_vars /\ WF_vars(toastTimer)

\* the selection store: the handlers and the two functions called on their own
NextStore ==
    \/ DOMContentLoaded
    \/ \E outcome \in {"ok", "geometryFails", "populationFails"}, doc \in PopulationDocs :
          loadData(outcome, doc)
    \/ \E fullname \in Regions : callSelectTownship(fullname)
    \/ \E fullname \in Regions : callDeselectTownship(fullname)
    \/ \E countyName \in Counties : callSelectCounty(countyName)
    \/ \E fullname \in Regions : handleClick(fullname)
    \/ \E fullname \in Regions : handleDoubleClick(fullname)
    \/ ClearButton
    \/ SelectAllButton
    \/ \E countyName \in Counties : CountyButton(countyName)

SpecStore == InitNominal /\ [][NextStore]_vars

\* the list panel: the selection with the headers of the county groups
NextList ==
    \/ DOMContentLoaded
    \/ \E outcome \in {"ok", "geometryFails", "populationFails"}, doc \in PopulationDocs :
          loadData(outcome, doc)
    \/ \E fullname \in Regions : handleClick(fullname)
    \/ \E fullname \in Regions : removeTownshipFromList(fullname)
    \/ ClearButton
    \/ \E countyName \in Counties : CountyButton(countyName)
    \/ \E countyName \in Counties : toggleCountyGroup(countyName)

SpecList == InitNominal /\ [][NextList]_vars

\* the selection with the export button, within the 2000 ms of a toast
NextExport ==
    \/ DOMContentLoaded
    \/ \E outcome \in {"ok", "geometryFails", "populationFails"}, doc \in PopulationDocs :
          loadData(outcome, doc)
    \/ \E fullname \in Regions : handleClick(fullname)
    \/ \E fullname \in Regions : removeTownshipFromList(fullname)
    \/ SelectAllButton
    \/ \E countyName \in Counties : CountyButton(countyName)
    \/ exportData

SpecExport == InitNominal /\ [][NextExport]_vars

(***************************************************************************)
(* Properties                                                              *)
(***************************************************************************)
Selected == Range(selectedTownships)
Members(countyName) == {f \in Regions : CountyOf(f) = countyName}

\* C1 (as stated): two selectCounty(name) calls in succession, with no other
\* selection operation in between, give back the selection set they started
\* from, also when the county was only partly selected.
C1_InvolutionAlways ==
    last.rep => Selected = last.before2

\* C1 (amended): two selectCounty(name) calls in succession give back the
\* selection set they started from when the county was fully selected or not
\* selected at all in it; when the county was partly selected, the two calls
\* leave the starting set without any region of the county.
C1_InvolutionWhenUniform ==
    last.rep =>
        LET M == Members(last.arg)
            S == last.before2
        IN  IF M \subseteq S \/ M \cap S = {}
            THEN Selected = S
            ELSE Selected = S \ M

C1_Witness ==
    /\ last.rep
    /\ Members(last.arg) \cap last.before2 = {}
    /\ last.before2 # {}
    /\ Cardinality(Members(last.arg)) > 1

\* C2: selectCounty(name) is one toggle over the county, decided once from the
\* state before the call: all members selected before => none selected after,
\* otherwise all members selected after.
C2_CountyToggle ==
    last.op = "selectCounty" =>
        LET M == Members(last.arg)
        IN  IF M \subseteq last.before
            THEN M \cap Selected = {}
            ELSE M \subseteq Selected

C2_Witness ==
    /\ last.op = "selectCounty"
    /\ Members(last.arg) \cap last.before # {}
    /\ ~(Members(last.arg) \subseteq last.before)
    /\ Members(last.arg) \subseteq Selected

\* C3: the selection set holds only identifiers of regions of the geometry
\* document, and it is empty until the application is ready.
C3_NoDanglingSelection ==
    /\ Selected \subseteq Regions
    /\ phase # "ready" => selectedTownships = << >>

C3_Witness ==
    /\ last.op = "selectCounty"
    /\ Selected = Regions
    /\ populationData = PopPartial

\* C4 (as stated): after handleClick on a region completes, the region is in
\* the selection set, whatever came before and at any timing.
C4_ClickAlwaysSelects ==
    last.op = "click" => last.arg \in Selected

\* C4 (amended): a click on a region selects it unless the region is the one of
\* the last accepted click and less than DOUBLE_CLICK_THRESHOLD ms have passed
\* since that click; such a click is taken for the second click of a
\* double-click and changes nothing.
C4_AcceptedClickSelects ==
    last.op = "click" =>
        IF last.same /\ last.within
        THEN Selected = last.before
        ELSE last.arg \in Selected

C4_Witness ==
    /\ last.op = "click"
    /\ last.same
    /\ ~last.within
    /\ last.arg \notin last.before
    /\ last.arg \in Selected

\* C5 (as stated): a click, click, dblclick gesture on a region within the
\* threshold ends with the region unselected; a region that was unselected has
\* been selected in between, and the second click changed no selection.
C5_DoubleClickGesture ==
    gesture.phase = 3 =>
        /\ gesture.target \notin Selected
        /\ ~gesture.was => gesture.flash
        /\ ~gesture.second

\* C5 (amended): the gesture ends with the region unselected; when its first
\* click is accepted (it is not itself within the threshold of an earlier
\* accepted click on the region), a region that was unselected has been
\* selected in between and the second click changed no selection.
C5_DoubleClickGestureAccepted ==
    gesture.phase = 3 =>
        /\ gesture.target \notin Selected
        /\ gesture.first =>
              /\ ~gesture.was => gesture.flash
              /\ ~gesture.second

C5_Witness ==
    /\ gesture.phase = 3
    /\ gesture.first
    /\ ~gesture.was
    /\ gesture.flash
    /\ gesture.target \notin Selected
    /\ last.op = "dblclick"
    /\ gesture.target \in last.before

\* the selected regions that have a record in the attribute document
WithRecord == Selected \cap DOMAIN populationData

RECURSIVE SumOfSet(_, _)
SumOfSet(S, field) ==
    IF S = {} THEN 0
    ELSE LET f == CHOOSE x \in S : TRUE
         IN  populationData[f][field] + SumOfSet(S \ {f}, field)

\* d is p / q rounded to the nearest integer, halves upwards (q > 0)
IsRounded(d, p, q) == (2 * d - 1) * q <= 2 * p /\ 2 * p < (2 * d + 1) * q

\* p / q lies exactly half way between two integers (q > 0)
IsHalfWay(p, q) == (2 * p) % q = 0 /\ ((2 * p) \div q) % 2 = 1

\* d is p / q rounded, or the integer below when p / q lies half way
IsRoundedOrBelow(d, p, q) ==
    IF IsHalfWay(p, q)
    THEN d \in {RoundDiv(p, q) - 1, RoundDiv(p, q)}
    ELSE IsRounded(d, p, q)

\* C6 (as stated): the displayed statistics are those of the current selection:
\* count, sum of population, sum of area, and round(population / area), or 0
\* when the area is 0.
C6_StatsAsStated ==
    phase = "ready" =>
        /\ stats.count = Cardinality(Selected)
        /\ stats.visible =>
              /\ stats.population = SumOfSet(WithRecord, "population")
              /\ 10 * stats.area = SumOfSet(WithRecord, "area10")
              /\ IF SumOfSet(WithRecord, "area10") > 0
                 THEN IsRounded(stats.density, 10 * SumOfSet(WithRecord, "population"),
                                SumOfSet(WithRecord, "area10"))
                 ELSE stats.density = 0

\* C6 (amended): the count shown is the number of selected regions; the summary
\* is shown exactly when the selection is not empty, and then shows the sum of
\* population, the sum of area rounded to a whole km2, and population / area
\* (of the unrounded sums) rounded, or 0 when the area is 0.  The sums are
\* binary floating point: a sum of areas or a quotient that lies exactly half
\* way between two integers can be shown as the lower of the two.
C6_StatsRounded ==
    phase = "ready" =>
        /\ stats.count = Cardinality(Selected)
        /\ stats.total = Cardinality(Regions)
        /\ stats.visible = (Selected # {})
        /\ stats.visible =>
              /\ stats.population = SumOfSet(WithRecord, "population")
              /\ IsRoundedOrBelow(stats.area, SumOfSet(WithRecord, "area10"), 10)
              /\ IF SumOfSet(WithRecord, "area10") > 0
                 THEN IsRoundedOrBelow(stats.density, 10 * SumOfSet(WithRecord, "population"),
                                       SumOfSet(WithRecord, "area10"))
                 ELSE stats.density = 0

\* the three small townships were selected one by one; their areas add up to
\* 3.5 km2 and the block shows 3
C6_Witness ==
    /\ last.op = "click"
    /\ populationData = PopFull
    /\ Selected = Regions
    /\ SumOfSet(WithRecord, "area10") = 35
    /\ stats = [count |-> 3, total |-> 3, visible |-> TRUE,
                population |-> 34, area |-> 3, density |-> 10]

\* C7: a handler that changes the selection set calls updateUI exactly once,
\* after its changes; so the export button is enabled iff the selection is not
\* empty and a county button is marked iff all the county's regions are selected.
C7_UpdateUIOnce ==
    phase = "ready" =>
        /\ (last.op # "none" /\ Selected # last.before) => last.calls = 1
        /\ exportDisabled = (Selected = {})
        /\ \A c \in Counties : countyButtons[c] = (Members(c) \subseteq Selected)

C7_Witness ==
    /\ last.op = "selectAll"
    /\ last.before = {}
    /\ last.calls = 1
    /\ Selected = Regions
    /\ ~exportDisabled
    /\ \A c \in Counties : countyButtons[c]

\* C8: in the render stack every selected region's layer is above every
\* unselected region's layer.
C8_SelectedOnTop ==
    \A i, j \in 1..Len(zOrder) :
        i < j => ~(zOrder[i] \in Selected /\ zOrder[j] \notin Selected)

C8_Witness ==
    /\ hovered = "B"
    /\ Selected = {"A"}
    /\ zOrder = << "C", "B", "A" >>

HoverBorder == [weight |-> 2, color |-> "#666", opacity |-> BORDER_UNSELECTED.opacity]

\* C9: a region that is not hovered has the selected border iff it is in the
\* selection set and the unselected border otherwise; only a hovered,
\* unselected region can have the hover border.
C9_BorderBySelection ==
    phase = "ready" =>
        \A f \in Regions :
            LET border == BorderOf(layerStyle[f])
            IN  /\ f # hovered =>
                      border = IF f \in Selected THEN BORDER_SELECTED ELSE BORDER_UNSELECTED
                /\ (f = hovered /\ f \in Selected) => border = BORDER_SELECTED
                /\ (f = hovered /\ f \notin Selected) => border \in {HoverBorder, BORDER_UNSELECTED}

C9_Witness ==
    /\ hovered # NoRegion
    /\ BorderOf(layerStyle[hovered]) = HoverBorder
    /\ Selected # {}
    /\ last.op = "remove"

\* the chart has one bar for each region of S and no other bar
BarsOf(chart, S) ==
    /\ chart.kind = "bars"
    /\ Range(chart.bars) = S
    /\ Len(chart.bars) = Cardinality(S)

\* the container was given a size in which renderChart draws n bars: more
\* than maxVisibleBars of them leave room for the scrollbar
Usable(box, n) ==
    /\ box.width > 0
    /\ box.height > 0
    /\ (IF n > maxVisibleBars THEN box.height - scrollbarHeight ELSE box.height)
          - marginTop - bottomMargin > 0

\* C10 (as stated): each chart shows one bar per selected region and no other,
\* by density resp. population descending; both show the placeholder when the
\* selection is empty.  (Read for an initialized chart module and containers
\* of usable size.)
C10_ChartsShowSelection ==
    (phase = "ready" /\ initialized) =>
        \A type \in {"density", "population"} :
            LET chart == charts[type]
            IN  Usable(chart.box, Cardinality(Selected)) =>
                    IF Selected = {}
                    THEN chart.kind = "placeholder"
                    ELSE /\ BarsOf(chart, Selected)
                         /\ \A i, j \in 1..Len(chart.bars) :
                               (i < j /\ {chart.bars[i], chart.bars[j]} \subseteq DOMAIN populationData)
                                  => populationData[chart.bars[i]][type]
                                        >= populationData[chart.bars[j]][type]

(***************************************************************************)
(* C11: an export of the empty selection shows a toast and makes no file;  *)
(* an export of a non-empty selection makes a file whose first line is the *)
(* header and which has exactly one row per selected region, each with the *)
(* region's stored attributes.                                             *)
(***************************************************************************)
C11_ExportAsStated ==
    exported.outcome # "none" =>
        IF exported.sel = << >>
        THEN exported.outcome = "toast" /\ exported.lines = << >>
        ELSE /\ exported.outcome = "file"
             /\ exported.lines[1] = RowKeys
             /\ Len(exported.lines) = 1 + Len(exported.sel)
             /\ \A f \in Range(exported.sel) :
                    \E i \in 2..Len(exported.lines) :
                        /\ exported.lines[i][1] = f
                        /\ exported.lines[i][2] = CountyOf(f)
                        /\ f \in DOMAIN populationData =>
                               /\ exported.lines[i][4] = populationData[f].population
                               /\ exported.lines[i][5] = populationData[f].area10
                               /\ exported.lines[i][6] = populationData[f].density

(***************************************************************************)
(* C12: a region of the geometry document without a population record is  *)
(* never fatal: no operation of a run that selects it raises an exception, *)
(* and it adds nothing to the population and area sums.                    *)
(***************************************************************************)
C12_MissingRecordNeverFatal ==
    /\ exported.outcome # "threw"
    /\ stats.visible =>
           /\ stats.population = SumOfSet(WithRecord, "population")
           /\ IsRoundedOrBelow(stats.area, SumOfSet(WithRecord, "area10"), 10)
(***************************************************************************)
(* C13: loading is one attempt.  When a fetch or a parse fails, init()     *)
(* stops after loadData: no layers, legend, listeners or updateUI, the     *)
(* selection stays empty and the load is not tried again.  When both       *)
(* documents load, the four set-up calls are made once, in that order,     *)
(* after the load.  The operations are those of the user interface.        *)
(***************************************************************************)
\* the awaits of init(), in the order the code passes them
AwaitRank(a) ==
    CASE a = "DOMContentLoaded" -> 0
      [] a = "fetchGeometry" -> 1
      [] a = "parseGeometry" -> 2
      [] a = "fetchPopulation" -> 3
      [] a = "parsePopulation" -> 4
      [] OTHER -> 5

\* nothing of the application is rendered and nothing is selected
NothingSetUp ==
    /\ selectedTownships = << >>
    /\ zOrder = << >>
    /\ layerStyle = << >>
    /\ selectedList = << >>
    /\ countyButtons = << >>
    /\ last = NoLast

C13_SingleAttempt ==
    /\ [](phase = "loading" =>
            /\ setupLog = IF awaiting = "DOMContentLoaded" THEN << >>
                          ELSE << "initMap", "loadData" >>
            /\ populationData = NullDoc
            /\ NothingSetUp)
    /\ [](phase = "failed" =>
            /\ setupLog = << "initMap", "loadData" >>
            /\ populationData = NullDoc
            /\ NothingSetUp)
    /\ [](phase = "ready" =>
            /\ setupLog = << "initMap", "loadData", "createGeoJSONLayer", "createLegend",
                             "setupEventListeners", "updateUI" >>
            /\ geojsonData # NullDoc
            /\ populationData # NullDoc)
    /\ [][phase = "failed" => phase' = "failed"]_vars
    /\ [][phase # "loading" =>
            /\ phase' = phase /\ setupLog' = setupLog /\ awaiting' = awaiting
            /\ geojsonData' = geojsonData /\ populationData' = populationData]_vars
    \* no await is passed twice, so no fetch and no parse is made again
    /\ [][awaiting' # awaiting => AwaitRank(awaiting') > AwaitRank(awaiting)]_vars
    /\ [][geojsonData # NullDoc => geojsonData' = geojsonData]_vars

\* the population document failed after the geometry was stored, and the chart
\* module has initialized on its own
C13_Witness ==
    /\ phase = "failed"
    /\ geojsonData = GeoDoc
    /\ initialized
(***************************************************************************)
(* C14: for a density d >= 0 getColor(d) is the palette entry of the last  *)
(* grade that d reaches, so getColor(0) is the first entry and the bucket  *)
(* does not go down when d goes up; a region without a density is filled   *)
(* as density 0.                                                           *)
(***************************************************************************)
\* the last grade that d reaches
LargestGrade(d) ==
    CHOOSE i \in 1..Len(COLOR_GRADES) :
        /\ d >= COLOR_GRADES[i]
        /\ \A j \in 1..Len(COLOR_GRADES) : d >= COLOR_GRADES[j] => j <= i

C14_ColorBuckets ==
    /\ colorProbe.applied =>
           /\ colorProbe.bucketLo = LargestGrade(colorProbe.lo)
           /\ colorProbe.bucketHi = LargestGrade(colorProbe.hi)
           /\ colorProbe.colorLo = COLOR_PALETTE[LargestGrade(colorProbe.lo)]
           /\ colorProbe.colorHi = COLOR_PALETTE[LargestGrade(colorProbe.hi)]
           /\ colorProbe.lo = 0 => colorProbe.colorLo = COLOR_PALETTE[1]
           /\ colorProbe.lo <= colorProbe.hi => colorProbe.bucketLo <= colorProbe.bucketHi
    /\ phase = "ready" =>
           \A f \in Regions :
               layerStyle[f].fillColor =
                   IF f \in DOMAIN populationData
                   THEN COLOR_PALETTE[LargestGrade(populationData[f].density)]
                   ELSE COLOR_PALETTE[1]

\* a density just under a grade and the grade itself fall in different buckets,
\* and a region without a record has been given its fill colour
C14_Witness ==
    /\ colorProbe.applied
    /\ colorProbe.lo = COLOR_GRADES[3] - 1
    /\ colorProbe.hi = COLOR_GRADES[3]
    /\ colorProbe.bucketLo < colorProbe.bucketHi
    /\ phase = "ready"
    /\ "C" \notin DOMAIN populationData
(***************************************************************************)
(* C15: the expanded state of a county group is kept by county name: from  *)
(* the moment the user expands county X until the user collapses it, every *)
(* render that shows a group for X shows it expanded, also after the       *)
(* selection was emptied or X had no selected member for a while.          *)
(***************************************************************************)
C15_ExpandedPreserved ==
    \A i \in 1..Len(selectedList) :
        selectedList[i].county \in userExpanded => selectedList[i].expanded
(***************************************************************************)
(* C16: selecting a selected region and deselecting an unselected one      *)
(* leave the selection set as it was, and a second select(id) or           *)
(* deselect(id) right after the first changes nothing.                     *)
(***************************************************************************)
C16_Idempotent ==
    /\ last.op = "select" =>
           /\ Selected = last.before \cup {last.arg}
           /\ last.arg \in last.before => Selected = last.before
           /\ last.rep => Selected = last.before
    /\ last.op = "deselect" =>
           /\ Selected = last.before \ {last.arg}
           /\ last.arg \notin last.before => Selected = last.before
           /\ last.rep => Selected = last.before

\* deselect was applied twice in a row to a region, with another one selected
C16_Witness ==
    /\ last.op = "deselect"
    /\ last.rep
    /\ last.arg \notin last.before
    /\ Selected # {}

(***************************************************************************)
(* C17: the step of selectAll ends with every region of the geometry       *)
(* selected; the step of clear ends with the empty selection and with the  *)
(* unselected border on every region that was selected.                    *)
(***************************************************************************)
C17_SelectAllAndClear ==
    [][ last' # last =>
           /\ last'.op = "selectAll" =>
                  Range(selectedTownships') = FullNames(geojsonData')
           /\ last'.op = "clear" =>
                  /\ selectedTownships' = << >>
                  /\ \A f \in last'.before :
                         BorderOf(layerStyle'[f]) = BorderOf(BORDER_UNSELECTED) ]_vars

\* clear ran while the pointer was on a selected region, which now has the
\* unselected border
C17_Witness ==
    /\ last.op = "clear"
    /\ hovered \in last.before
    /\ Selected = {}
    /\ BorderOf(layerStyle[hovered]) = BorderOf(BORDER_UNSELECTED)

(***************************************************************************)
(* C18: select(id), deselect(id), a click and a double-click on id leave   *)
(* every other region in or out of the selection as it was; selectCounty   *)
(* leaves every region of another county as it was.                        *)
(***************************************************************************)
C18_Frame ==
    /\ last.op \in {"select", "deselect", "click", "dblclick"} =>
           \A f \in Regions \ {last.arg} : f \in Selected <=> f \in last.before
    /\ last.op = "selectCounty" =>
           \A f \in Regions \ Members(last.arg) : f \in Selected <=> f \in last.before

\* the toggle of county X changed the selection while C of county Y stayed in
C18_Witness ==
    /\ last.op = "selectCounty"
    /\ last.arg = "X"
    /\ Selected # last.before
    /\ "C" \in Selected
(***************************************************************************)
(* C19: initialized never goes back to false; init() on an initialized     *)
(* module changes nothing; an update made while the module is or can       *)
(* become initialized stores its data as lastData, and one made while it   *)
(* cannot changes neither lastData nor the charts; the delayed refresh     *)
(* re-renders the data of the most recent update.                          *)
(***************************************************************************)
\* the step made an update: a handler that called updateUI, or the end of the
\* load
UpdateMade ==
    \/ last' # last /\ last'.calls > 0
    \/ phase = "loading" /\ phase' = "ready"

\* the step called init() on its own: the window load handler, or tryInit from
\* its listener or its timer
InitCalled ==
    \/ windowLoad = "before" /\ windowLoad' = "pending"
    \/ tryInitTimer' # tryInitTimer

\* the charts BarPlots.update draws from lastData in the current layout
ChartsOfLastData ==
    BarPlotsUpdate([initialized |-> initialized, lastData |-> lastData, charts |-> charts],
                   lastData).charts

\* C19 (as stated): initialized is never reset; init() on an initialized
\* module changes nothing; a step that makes an update stores its data when
\* the module is initialized afterwards and changes nothing otherwise; once
\* an update has stored its data, the delayed refresh draws the charts of
\* lastData in the current layout.
C19_RefreshRendersLatest ==
    /\ [][initialized => initialized']_vars
    /\ [][initialized /\ InitCalled => charts' = charts /\ lastData' = lastData]_vars
    /\ [][UpdateMade =>
             IF initialized'
             THEN lastData' = selectedData(selectedTownships', populationData')
             ELSE lastData' = lastData /\ charts' = charts]_vars
    /\ [][windowLoad = "pending" /\ windowLoad' = "done" /\ initialized /\ updated =>
             charts' = ChartsOfLastData /\ lastData' = lastData]_vars
(***************************************************************************)
(* C20: the document holds at most one toast; a toast leaves the document  *)
(* only in a later showToast call or when its own timer expires, so the    *)
(* timer of an earlier toast does not remove a later one; and every toast  *)
(* is removed in the end.                                                  *)
(***************************************************************************)
C20_OneToast ==
    /\ [](Len(toasts) <= 1)
    /\ [][\A toast \in Range(toasts) :
             toast \notin Range(toasts') =>
                 \/ toastCount' = toastCount + 1
                 \/ /\ toastTimers # << >>
                    /\ Head(toastTimers) = toast
                    /\ toastTimers' = Tail(toastTimers)]_vars
    /\ \A toast \in 1..MaxToasts :
          (toast \in Range(toasts)) ~> (toast \notin Range(toasts))

\* the second toast is shown and only its own timer is pending: the timer of
\* the first has expired or will find its toast gone
C20_Witness ==
    /\ toastCount = 2
    /\ toasts = << 2 >>
    /\ toastTimers = << 2 >>
====
